---- MODULE Spec2Model ----
(***************************************************************************)
(* Model of kerashelper.py: repeat_layers (the batch constructor),         *)
(* call_layers (the sequential applier) and LayerStack (the stack          *)
(* wrapper).                                                               *)
(*                                                                         *)
(* Python values are encoded as follows.                                   *)
(*   list / tuple   a TLA+ sequence (the kind is kept beside it where the  *)
(*                  code tests it with isinstance)                         *)
(*   dict           a function whose domain is the set of keys             *)
(*   None | str     None is <<>>, the string s is <<s>>                    *)
(*   layer object   the record of the constructor call that built it       *)
(* Loop indices i, j are the 0-based indices of the source; sequences are  *)
(* 1-based, so args[j][i] of the source is args[j + 1][i + 1] here.        *)
(***************************************************************************)
EXTENDS Integers, Sequences, FiniteSets, TLC

\* ---------------------------------------------------------------- bounds
MaxLists == 2
MaxLen == 3
MaxStack == 3

\* ------------------------------------------------------ python primitives
None == <<>>

Some(s) == <<s>>

\* truth value of `name` in `if name:` -- None and "" are both false
Truthy(nm) == nm # None /\ nm[1] # ""

Digit(d) ==
  CASE d = 0 -> "0" [] d = 1 -> "1" [] d = 2 -> "2" [] d = 3 -> "3"
    [] d = 4 -> "4" [] d = 5 -> "5" [] d = 6 -> "6" [] d = 7 -> "7"
    [] d = 8 -> "8" [] d = 9 -> "9"

RECURSIVE str(_)
\* str() of an int: decimal digits, most significant first, "-" when negative
str(n) ==
  IF n < 0 THEN "-" \o str(0 - n)
  ELSE IF n < 10 THEN Digit(n)
  ELSE str(n \div 10) \o Digit(n % 10)

\* d[key] = value
SetItem(d, key, value) ==
  [k \in DOMAIN d \cup {key} |-> IF k = key THEN value ELSE d[k]]

\* d.pop(key, None), as a statement
Pop(d, key) == [k \in DOMAIN d \ {key} |-> d[k]]

\* the sequences over S of length 0..n
SeqUpTo(S, n) == UNION {[1..m -> S] : m \in 0..n}

\* ------------------------------------------------------------ input sets
\* the first elements of the caller's positional argument lists
Values == {10, 100}

\* the caller's lists: of every length up to MaxLen, with elements that
\* differ from one index to the next (v, 2v, 3v, ...) and from one list to
\* the other, so that an element tells which list and index it came from
ArgLists == {[k \in 1..m |-> v * k] : m \in 0..MaxLen, v \in Values}

ArgTuples == SeqUpTo(ArgLists, MaxLists)

Names == {None, Some(""), Some("h")}

StartIndexes == {0 - 1, 1, 9}

Shapes == {<<10>>, <<3, 4>>}

\* the caller's keyword mappings; "name" is a parameter of repeat_layers and
\* therefore never a key of **kwargs
Configs ==
  {<<>>, [activation |-> "relu"]}
    \cup {[input_shape |-> s] : s \in Shapes}
    \cup {[input_shape |-> s, activation |-> "relu"] : s \in Shapes}

\* ------------------------------------------------------------------ state
VARIABLES
  pc,               \* "idle", "loop", "returned", "raised"
  args,             \* the tuple of the caller's lists (shared by reference)
  cfg,              \* the caller's keyword mapping
  name,
  name_start_index,
  kwargs,           \* the callee's keyword dict
  i,                \* loop index of line 77
  layers,           \* the list being accumulated
  result,           \* the returned list, meaningful when pc = "returned"
  exc,              \* the exception that left the call, "" when none
  calls,            \* constructor invocations of the current call, in order
  reads,            \* <<j, i>> of every args[j][i] evaluated by the call
  args0,            \* args as they were when the first call was made
  cfg0,             \* cfg as it was when the first call was made
  prevCalls,        \* calls of the previous call with the same inputs
  round,            \* 1 during the first call, 2 during the repeated one
  keras_layers,     \* slot -> what the caller passes to LayerStack(...)
  stack,            \* slot -> the LayerStack object (or the failure)
  tensor,           \* what the caller passes to stack(...) / call_layers
  out,              \* slot -> what stack(tensor) returned
  cl                \* the last direct call of call_layers

repeatVars ==
  <<pc, args, cfg, name, name_start_index, kwargs, i, layers, result, exc,
    calls, reads, args0, cfg0, prevCalls, round>>

stackVars == <<keras_layers, stack, tensor, out>>

vars == <<repeatVars, stackVars, cl>>

\* ---------------------------------------------------------- repeat_layers
\* the external constructor: opaque, so an object is identified with the
\* positional and keyword arguments it was built from
layer_class(pos, kw) == [args |-> pos, kwargs |-> kw]

\* line 76: the keywords of the single constructor call made without lists
SingleLayerKwargs_suffixed(nm, nsi, kw) ==
  SetItem(kw, "name", IF Truthy(nm) THEN Some(nm[1] \o "_" \o str(nsi)) ELSE nm)

SingleLayerKwargs(nm, nsi, kw) == SetItem(kw, "name", nm)

NumLayers_last(a) == Len(a[Len(a)])

RECURSIVE MinLen(_)
MinLen(a) ==
  IF Len(a) = 1 THEN Len(a[1])
  ELSE LET m == MinLen(Tail(a)) IN IF Len(a[1]) < m THEN Len(a[1]) ELSE m

NumLayers_zip(a) == MinLen(a)

\* line 77: range(len(args[0]))
NumLayers(a) == Len(a[1])

\* lines 79-80: the least j whose list has no element i, Len(a) when none
RECURSIVE FirstShort(_, _, _)
FirstShort(a, idx, j) ==
  IF j >= Len(a) THEN Len(a)
  ELSE IF idx >= Len(a[j + 1]) THEN j
  ELSE FirstShort(a, idx, j + 1)

\* lines 79-80: every args[j][i] is in range
CanIndex(a, idx) == FirstShort(a, idx, 0) = Len(a)

\* lines 79-80: the subscripts evaluated, the failing one included
ReadsAt(a, idx) ==
  {<<j, idx>> : j \in {k \in 0..(Len(a) - 1) : k <= FirstShort(a, idx, 0)}}

PositionalArgs_reversed(a, idx) ==
  [j \in 1..Len(a) |-> a[Len(a) + 1 - j][idx + 1]]

\* lines 78-80: arg = [args[0][i], args[1][i], ...]
PositionalArgs(a, idx) == [j \in 1..Len(a) |-> a[j][idx + 1]]

LayerName_fixed(nm, nsi, idx) == nm[1] \o "_" \o str(nsi)

\* line 82: name + "_" + str(name_start_index + i)
LayerName(nm, nsi, idx) == nm[1] \o "_" \o str(nsi + idx)

\* lines 81-82
WithName(kw, nm, nsi, idx) ==
  IF Truthy(nm) THEN SetItem(kw, "name", Some(LayerName(nm, nsi, idx)))
  ELSE kw

AfterConstruct_keep(kw) == kw

\* line 84: kwargs.pop("input_shape", None)
AfterConstruct(kw) == Pop(kw, "input_shape")

CallerView_aliased(c, kw) == kw

\* line 31: **kwargs collects the keywords into a dict of the callee's own,
\* so what the callee does to kwargs is not seen in the caller's mapping
CallerView(c, kw) == c

\* lines 31, 74-76: bind the parameters, then either the single call or
\* the entry of the loop
Enter(a, nm, nsi, c) ==
  /\ kwargs' = c
  /\ layers' = <<>>
  /\ i' = 0
  /\ exc' = ""
  /\ reads' = {}
  /\ IF a = <<>>
     THEN LET obj == layer_class(<<>>, SingleLayerKwargs(nm, nsi, c)) IN
          /\ calls' = <<obj>>
          /\ result' = <<obj>>
          /\ pc' = "returned"
     ELSE /\ calls' = <<>>
          /\ result' = <<>>
          /\ pc' = "loop"

\* the caller calls repeat_layers(layer_class, *a, name=nm,
\* name_start_index=nsi, **c)
Call ==
  /\ pc = "idle"
  /\ \E a \in ArgTuples, nm \in Names, nsi \in StartIndexes, c \in Configs :
       /\ args' = a
       /\ name' = nm
       /\ name_start_index' = nsi
       /\ cfg' = c
       /\ args0' = a
       /\ cfg0' = c
       /\ Enter(a, nm, nsi, c)
  /\ UNCHANGED <<prevCalls, round, stackVars, cl>>

\* lines 77-84: one iteration of the loop that builds a layer
LoopBody ==
  /\ pc = "loop"
  /\ i < NumLayers(args)
  /\ CanIndex(args, i)
  /\ LET arg == PositionalArgs(args, i)
         kw == WithName(kwargs, name, name_start_index, i)
         obj == layer_class(arg, kw)
     IN /\ layers' = Append(layers, obj)
        /\ calls' = Append(calls, obj)
        /\ kwargs' = AfterConstruct(kw)
        /\ cfg' = CallerView(cfg, AfterConstruct(kw))
  /\ reads' = reads \cup ReadsAt(args, i)
  /\ i' = i + 1
  /\ UNCHANGED <<pc, args, name, name_start_index, result, exc, args0, cfg0,
                 prevCalls, round, stackVars, cl>>

\* lines 77-80: one iteration in which args[j][i] is out of range
LoopIndexError ==
  /\ pc = "loop"
  /\ i < NumLayers(args)
  /\ ~CanIndex(args, i)
  /\ reads' = reads \cup ReadsAt(args, i)
  /\ exc' = "IndexError"
  /\ pc' = "raised"
  /\ UNCHANGED <<args, cfg, name, name_start_index, kwargs, i, layers, result,
                 calls, args0, cfg0, prevCalls, round, stackVars, cl>>

\* line 85
Return ==
  /\ pc = "loop"
  /\ i >= NumLayers(args)
  /\ result' = layers
  /\ pc' = "returned"
  /\ UNCHANGED <<args, cfg, name, name_start_index, kwargs, i, layers, exc,
                 calls, reads, args0, cfg0, prevCalls, round, stackVars, cl>>

\* the caller makes the same call again, with the lists and the mapping it
\* still holds
CallAgain ==
  /\ pc \in {"returned", "raised"}
  /\ round = 1
  /\ round' = 2
  /\ prevCalls' = calls
  /\ Enter(args, name, name_start_index, cfg)
  /\ UNCHANGED <<args, cfg, name, name_start_index, args0, cfg0, stackVars,
                 cl>>

\* ------------------------------------------------------------ call_layers
\* the layer objects handed to call_layers / LayerStack
Callables == {"f", "g", "h"}

Tensors == {0, 1, 2, 3}

LayerLists == SeqUpTo(Callables, MaxStack)

\* line 210: layer(tensor); three maps on Tensors no two of which commute
Apply(layer, t) ==
  CASE layer = "f" -> (t + 1) % 4
    [] layer = "g" -> (2 * t) % 4
    [] layer = "h" -> 3 - t

RECURSIVE call_layers_loop(_, _, _, _)
\* lines 209-210: the loop from the k-th layer on; trace lists the calls
\* layer(tensor) made so far
call_layers_loop(ls, k, t, trace) ==
  IF k > Len(ls) THEN [value |-> t, trace |-> trace]
  ELSE call_layers_loop(ls, k + 1, Apply(ls[k], t),
                        Append(trace, [layer |-> ls[k], input |-> t]))

RECURSIVE call_layers_backwards(_, _, _, _)
call_layers_backwards(ls, k, t, trace) ==
  IF k < 1 THEN [value |-> t, trace |-> trace]
  ELSE call_layers_backwards(ls, k - 1, Apply(ls[k], t),
                             Append(trace, [layer |-> ls[k], input |-> t]))

call_layers_reversed(ls, t) == call_layers_backwards(ls, Len(ls), t, <<>>)

\* lines 209-211
call_layers(ls, t) == call_layers_loop(ls, 1, t, <<>>)

\* ------------------------------------------------------------- LayerStack
Slots == {1, 2}

\* what a caller may pass to LayerStack(...): a list, a tuple, an int, or
\* an object with a `layers` attribute that is a list, a tuple or an int;
\* items are the elements of the list or tuple
StackInputs ==
  [kind : {"list", "tuple"}, attr : {"none"}, items : LayerLists]
    \cup {[kind |-> "int", attr |-> "none", items |-> <<>>]}
    \cup [kind : {"Model"}, attr : {"list", "tuple"}, items : LayerLists]
    \cup {[kind |-> "Model", attr |-> "int", items |-> <<>>]}

NoInput == [kind |-> "none", attr |-> "none", items |-> <<>>]

NoStack == [status |-> "none", layers |-> <<>>]

\* line 20 succeeds exactly when the value has a `layers` attribute
HasLayersAttr(x) == x.kind = "Model"

Unwrap_forgotten(x) == x

\* lines 19-22: keras_layers = keras_layers.layers, kept as it is when the
\* attribute access raises
Unwrap(x) ==
  IF HasLayersAttr(x) THEN [kind |-> x.attr, attr |-> "none", items |-> x.items]
  ELSE x

IsList_or_tuple(v) == v.kind \in {"list", "tuple"}

\* line 23: isinstance(keras_layers, list)
IsList(v) == v.kind = "list"

\* lines 18-25: the object after __init__, or the ValueError leaving it
LayerStack_init(x) ==
  LET v == Unwrap(x) IN
  IF ~IsList(v) THEN [status |-> "ValueError", layers |-> <<>>]
  ELSE [status |-> "built", layers |-> v.items]

\* lines 27-28
LayerStack_call(self, t) == call_layers(self.layers, t).value

\* the caller evaluates LayerStack(x) and keeps the result in a slot
Construct ==
  /\ tensor = None
  /\ \E s \in Slots, x \in StackInputs :
       /\ stack[s] = NoStack
       /\ keras_layers' = [keras_layers EXCEPT ![s] = x]
       /\ stack' = [stack EXCEPT ![s] = LayerStack_init(x)]
  /\ UNCHANGED <<repeatVars, tensor, out, cl>>

\* the caller calls every wrapper it holds on the same tensor
Invoke ==
  /\ tensor = None
  /\ \E s \in Slots : stack[s].status = "built"
  /\ \E t \in Tensors :
       /\ tensor' = Some(t)
       /\ out' = [s \in Slots |->
                    IF stack[s].status = "built"
                    THEN Some(LayerStack_call(stack[s], t))
                    ELSE None]
  /\ UNCHANGED <<repeatVars, keras_layers, stack, cl>>

\* the caller calls call_layers(ls, t) directly
CallLayers ==
  /\ \E ls \in LayerLists, t \in Tensors :
       LET r == call_layers(ls, t) IN
       cl' = [called |-> TRUE, layers |-> ls, tensor |-> t,
              value |-> r.value, trace |-> r.trace]
  /\ UNCHANGED <<repeatVars, stackVars>>

\* --------------------------------------------------------- specifications
Init ==
  /\ pc = "idle"
  /\ args = <<>>
  /\ cfg = <<>>
  /\ name = None
  /\ name_start_index = 1
  /\ kwargs = <<>>
  /\ i = 0
  /\ layers = <<>>
  /\ result = <<>>
  /\ exc = ""
  /\ calls = <<>>
  /\ reads = {}
  /\ args0 = <<>>
  /\ cfg0 = <<>>
  /\ prevCalls = <<>>
  /\ round = 1
  /\ keras_layers = [s \in Slots |-> NoInput]
  /\ stack = [s \in Slots |-> NoStack]
  /\ tensor = None
  /\ out = [s \in Slots |-> None]
  /\ cl = [called |-> FALSE, layers |-> <<>>, tensor |-> 0, value |-> 0,
           trace |-> <<>>]

Next == Call \/ LoopBody \/ LoopIndexError \/ Return \/ CallAgain

Spec == Init /\ [][Next]_vars

NextStack == Construct \/ Invoke

SpecStack == Init /\ [][NextStack]_vars

NextApply == CallLayers

SpecApply == Init /\ [][NextApply]_vars

\* ----------------------------------------------------------------- claims
Done == pc \in {"returned", "raised"}

EqualLengths(a) == \A j \in 1..Len(a) : Len(a[j]) = Len(a[1])

SomeShorterThanFirst(a) == \E j \in 1..Len(a) : Len(a[j]) < Len(a[1])

\* the tuple (arg_lists[0][k-1], arg_lists[1][k-1], ...) of the k-th object
Column(a, k) == [j \in 1..Len(a) |-> a[j][k]]

NameOf(obj) == obj.kwargs["name"]

\* C1: with one or more argument lists of one common length n the call
\* returns (it does not raise), the result has n elements, element i was built
\* from the tuple of the i-th elements of the lists in their given order, and
\* the elements are in the order in which the constructor built them.
C1_Theorem ==
  (args # <<>> /\ EqualLengths(args)) =>
    /\ pc # "raised"
    /\ pc = "returned" =>
         /\ Len(result) = Len(args[1])
         /\ \A k \in 1..Len(result) : result[k].args = Column(args, k)
         /\ result = calls

C1_Witness ==
  /\ pc = "returned"
  /\ Len(args) = 2
  /\ EqualLengths(args)
  /\ Len(result) = 2
  /\ args[1][1] # args[2][1]

\* C2: without argument lists the constructor is called exactly once, with no
\* positional arguments, with name equal to the given name (no suffix) and
\* with every option of the shared configuration, input_shape included; the
\* result is the one-element list holding that object.
C2_Theorem ==
  (pc = "returned" /\ args = <<>>) =>
    /\ Len(calls) = 1
    /\ calls[1].args = <<>>
    /\ DOMAIN calls[1].kwargs = DOMAIN cfg0 \cup {"name"}
    /\ NameOf(calls[1]) = name
    /\ \A k \in DOMAIN cfg0 : calls[1].kwargs[k] = cfg0[k]
    /\ result = calls

C2_Witness ==
  /\ pc = "returned"
  /\ args = <<>>
  /\ name = Some("h")
  /\ name_start_index = 9
  /\ "input_shape" \in DOMAIN cfg0

\* the names of the objects built so far are name_<start>, name_<start+1>, ...
SuffixedNames ==
  \A k \in 1..Len(calls) :
    /\ "name" \in DOMAIN calls[k].kwargs
    /\ NameOf(calls[k]) = Some(name[1] \o "_" \o str(name_start_index + k - 1))

\* C3 as stated: whenever name is set (is not None) and argument lists are
\* supplied, the i-th object is named name_<name_start_index + i>.
C3_Original == (args # <<>> /\ name # None) => SuffixedNames

\* C3, amended: whenever name is a non-empty string and argument lists are
\* supplied, the i-th object is named name_<name_start_index + i>; the names
\* of one batch are pairwise distinct; for "h" the batches of three are
\* h_1 h_2 h_3 from start index 1, h_9 h_10 h_11 from 9, h_-1 h_0 h_1 from -1.
C3_Theorem ==
  (args # <<>> /\ Truthy(name)) =>
    /\ SuffixedNames
    /\ \A k, m \in 1..Len(calls) : k # m => NameOf(calls[k]) # NameOf(calls[m])
    /\ (name = Some("h") /\ Len(calls) = 3) =>
         <<NameOf(calls[1])[1], NameOf(calls[2])[1], NameOf(calls[3])[1]>> =
           CASE name_start_index = 1 -> <<"h_1", "h_2", "h_3">>
             [] name_start_index = 9 -> <<"h_9", "h_10", "h_11">>
             [] name_start_index = 0 - 1 -> <<"h_-1", "h_0", "h_1">>

C3_Witness ==
  /\ pc = "returned"
  /\ name = Some("h")
  /\ name_start_index = 1
  /\ Len(result) = 3

\* C4: with argument lists and input_shape in the shared configuration, the
\* first object is built with input_shape at the caller's value, no later
\* object is built with input_shape, and every other shared option reaches
\* every object unchanged.
C4_Theorem ==
  (args # <<>> /\ "input_shape" \in DOMAIN cfg0) =>
    \A k \in 1..Len(calls) :
      LET kw == calls[k].kwargs IN
      /\ k = 1 => /\ "input_shape" \in DOMAIN kw
                  /\ kw["input_shape"] = cfg0["input_shape"]
      /\ k > 1 => "input_shape" \notin DOMAIN kw
      /\ \A key \in DOMAIN cfg0 \ {"input_shape"} :
           key \in DOMAIN kw /\ kw[key] = cfg0[key]

C4_Witness ==
  /\ pc = "returned"
  /\ Len(result) = 3
  /\ DOMAIN cfg0 = {"input_shape", "activation"}

\* C5: call_layers calls each layer once, in list order, the first on the
\* given tensor and each later one on the result of the one before, and
\* returns the last result; for [f, g, h] that is h(g(f(x))), for [] it is x.
C5_Theorem ==
  cl.called =>
    LET n == Len(cl.layers) IN
    /\ Len(cl.trace) = n
    /\ \A k \in 1..n : cl.trace[k].layer = cl.layers[k]
    /\ \A k \in 1..n :
         cl.trace[k].input =
           IF k = 1 THEN cl.tensor
           ELSE Apply(cl.layers[k - 1], cl.trace[k - 1].input)
    /\ cl.value = IF n = 0 THEN cl.tensor
                  ELSE Apply(cl.layers[n], cl.trace[n].input)
    /\ cl.layers = <<"f", "g", "h">> =>
         cl.value = Apply("h", Apply("g", Apply("f", cl.tensor)))

C5_Witness ==
  /\ cl.called
  /\ cl.layers = <<"f", "g", "h">>
  /\ cl.tensor = 1
  /\ cl.value = 3

\* an ordered sequence, or an object whose layers member is one
IsSequenceOrComposite(x) ==
  \/ x.kind \in {"list", "tuple"}
  \/ x.kind = "Model" /\ x.attr \in {"list", "tuple"}

\* a list, or an object whose layers member is a list
IsListOrListComposite(x) ==
  \/ x.kind = "list"
  \/ x.kind = "Model" /\ x.attr = "list"

\* C6 as stated: LayerStack(x) succeeds for every ordered sequence and every
\* object with an ordered layers member, and raises ValueError otherwise.
C6_Original ==
  \A s \in Slots :
    keras_layers[s] # NoInput =>
      stack[s].status =
        IF IsSequenceOrComposite(keras_layers[s]) THEN "built"
        ELSE "ValueError"

\* C6, amended: LayerStack(x) succeeds, keeping the elements in order, for
\* every list and every object whose layers member is a list, and raises
\* ValueError for every other input (a tuple, an integer, an object whose
\* layers member is not a list); on failure there is no wrapper.
C6_Theorem ==
  \A s \in Slots :
    keras_layers[s] # NoInput =>
      IF IsListOrListComposite(keras_layers[s])
      THEN stack[s] = [status |-> "built", layers |-> keras_layers[s].items]
      ELSE stack[s].status = "ValueError" /\ out[s] = None

C6_Witness ==
  /\ keras_layers[1].kind = "int"
  /\ stack[1].status = "ValueError"
  /\ keras_layers[2].kind = "Model"
  /\ stack[2].status = "built"
  /\ tensor # None

\* slot 1 was given a sequence and slot 2 an object whose layers member is
\* that sequence
SequenceAndItsComposite ==
  /\ keras_layers[1].kind \in {"list", "tuple"}
  /\ keras_layers[2].kind = "Model"
  /\ keras_layers[2].attr = keras_layers[1].kind
  /\ keras_layers[2].items = keras_layers[1].items

\* C7: LayerStack(L) and LayerStack(M) with M.layers equal to L are built
\* alike, and called on the same tensor they return the same value, which is
\* call_layers(L, tensor).
C7_Theorem ==
  SequenceAndItsComposite =>
    /\ stack[1].status = stack[2].status
    /\ out[1] = out[2]
    /\ (tensor # None /\ stack[1].status = "built") =>
         out[1] = Some(call_layers(keras_layers[1].items, tensor[1]).value)

C7_Witness ==
  /\ SequenceAndItsComposite
  /\ keras_layers[1].items = <<"g", "f">>
  /\ tensor = Some(1)
  /\ out[2] = Some(3)

\* C8 as stated: whenever the argument lists differ in length the call
\* fails with IndexError.
C8_Original ==
  (Done /\ args # <<>> /\ ~EqualLengths(args)) =>
    pc = "raised" /\ exc = "IndexError"

\* C8, amended: whenever some argument list is shorter than the first one the
\* call fails with IndexError and returns nothing; no other call fails.
C8_Theorem ==
  /\ (Done /\ args # <<>> /\ SomeShorterThanFirst(args)) =>
       pc = "raised" /\ exc = "IndexError" /\ result = <<>>
  /\ pc = "raised" => args # <<>> /\ SomeShorterThanFirst(args)

C8_Witness ==
  /\ pc = "raised"
  /\ exc = "IndexError"
  /\ Len(args[1]) = 3
  /\ Len(calls) = 2

\* C9: a call leaves the caller's lists and the caller's mapping as they
\* were (input_shape kept, no name added), and the same call made again
\* invokes the constructor in the same way, its first object receiving
\* input_shape again.
C9_Theorem ==
  /\ args = args0
  /\ cfg = cfg0
  /\ "name" \notin DOMAIN cfg
  /\ (round = 2 /\ Done) =>
       /\ calls = prevCalls
       /\ (calls # <<>> /\ "input_shape" \in DOMAIN cfg0) =>
            /\ "input_shape" \in DOMAIN calls[1].kwargs
            /\ calls[1].kwargs["input_shape"] = cfg0["input_shape"]

C9_Witness ==
  /\ round = 2
  /\ pc = "returned"
  /\ Len(calls) = 2
  /\ Truthy(name)
  /\ "input_shape" \in DOMAIN cfg0

\* C10: when no argument list is shorter than the first one (length n) the
\* call returns n objects, the k-th built from the k-th elements, and no
\* element at an index >= n is read.
C10_Theorem ==
  (args # <<>> /\ ~SomeShorterThanFirst(args)) =>
    /\ pc # "raised"
    /\ \A r \in reads : r[2] < Len(args[1])
    /\ pc = "returned" =>
         /\ Len(result) = Len(args[1])
         /\ \A k \in 1..Len(result) : result[k].args = Column(args, k)

C10_Witness ==
  /\ pc = "returned"
  /\ Len(args) = 2
  /\ Len(args[1]) = 1
  /\ Len(args[2]) = 3
  /\ reads = {<<0, 0>>, <<1, 0>>}

====
